---- MODULE Spec2Model ----
(***************************************************************************)
(* A model of digest (src/index.js): classes Food, FoodCollection and      *)
(* FoodQuery as returned by setup(keyPerson1, keyPerson2).                 *)
(*                                                                         *)
(* JavaScript strings are modelled as sequences of one-character strings,  *)
(* so that substring search, case conversion, sanitization and collation   *)
(* are computed and not assumed.  The primitive values null and undefined  *)
(* are one-element sequences holding a token that is no character.         *)
(***************************************************************************)
EXTENDS Integers, Sequences, FiniteSets, TLC

VARIABLES heap, parent, last

vars == <<heap, parent, last>>

(***************************************************************************)
(* Bounds of the exploration.                                              *)
(***************************************************************************)
\* Longest collection built from PoolFoods in an initial state.
MaxLen == 2
\* Most arguments, and most elements of an array, handed to the constructor
\* of FoodCollection.
MaxItems == 2

(***************************************************************************)
(* JavaScript values.                                                      *)
(***************************************************************************)
Null == <<"null">>
Undefined == <<"undefined">>
True == <<"true">>
False == <<"false">>
\* The numbers 0 and 5, and an object without properties ({}), as values of
\* a property or of an argument.
Zero == <<"number", "0">>
Five == <<"number", "5">>
EmptyObject == <<"object">>

\* The strings of the program text.
kAlias == <<"a","l","i","a","s">>
kImgFile == <<"i","m","g","F","i","l","e">>
kFoodEn == <<"f","o","o","d","E","n">>
kFoodNative == <<"f","o","o","d","N","a","t","i","v","e">>
kServing == <<"s","e","r","v","i","n","g">>
kSearch == <<"s","e","a","r","c","h">>
kSort == <<"s","o","r","t">>
asc == <<"a","s","c">>
dsc == <<"d","s","c">>
Superfood == <<"S","u","p","e","r","f","o","o","d">>
Enjoy == <<"E","n","j","o","y">>
Minimize == <<"M","i","n","i","m","i","z","e">>
Avoid == <<"A","v","o","i","d">>

\* The person keys the tests pass to setup().
keyPerson1 == <<"R","o","m","e","o">>
keyPerson2 == <<"J","u","l","i","e","t">>

catPerson1 == <<"c","a","t">> \o keyPerson1
catPerson2 == <<"c","a","t">> \o keyPerson2

stdCats == <<Superfood, Enjoy, Minimize, Avoid>>

sortableKeys == <<kAlias, kFoodEn, kFoodNative>> \o <<catPerson1, catPerson2>>

\* Array.prototype.indexOf, zero-based, -1 when absent (strict equality).
IndexOf(arr, v) ==
    LET hits == {i \in 1..Len(arr) : arr[i] = v}
    IN  IF hits = {} THEN -1
        ELSE (CHOOSE i \in hits : \A j \in hits : i <= j) - 1

(***************************************************************************)
(* Characters: letter case as String.prototype.toUpperCase and the         *)
(* case-insensitive RegExp see it, and the weights of Intl.Collator.       *)
(***************************************************************************)
LowerLetters ==
    <<"a","b","c","d","e","f","g","h","i","j","k","l","m",
      "n","o","p","q","r","s","t","u","v","w","x","y","z">>
UpperLetters ==
    <<"A","B","C","D","E","F","G","H","I","J","K","L","M",
      "N","O","P","Q","R","S","T","U","V","W","X","Y","Z">>
\* Accented letters of the data, lower case then upper case, and their base.
\* A character outside ASCII is written as an ASCII token, such as "e:acute",
\* "sharp-s" (the German sharp s) and "em-dash" (U+2014).
LowerAccented == <<"e:acute", "e:grave", "a:grave">>
UpperAccented == <<"E:acute", "E:grave", "A:grave">>
AccentedBase == <<"e", "e", "a">>

Range(f) == {f[i] : i \in DOMAIN f}

NonAscii == Range(LowerAccented) \cup Range(UpperAccented) \cup {"sharp-s", "em-dash", "double-hyphen"}

\* String.prototype.toUpperCase of one character: a string, since the upper
\* case of a character can be longer than one character (sharp s gives "SS").
CharToUpperCase(ch) ==
    IF IndexOf(LowerLetters, ch) >= 0
        THEN <<UpperLetters[IndexOf(LowerLetters, ch) + 1]>>
    ELSE IF IndexOf(LowerAccented, ch) >= 0
        THEN <<UpperAccented[IndexOf(LowerAccented, ch) + 1]>>
    ELSE IF ch = "sharp-s" THEN <<"S", "S">>
    ELSE <<ch>>

RECURSIVE ToUpperCase(_)
ToUpperCase(s) ==
    IF s = <<>> THEN <<>>
    ELSE CharToUpperCase(Head(s)) \o ToUpperCase(Tail(s))

\* Canonicalize of a RegExp with flag i and without flag u (ECMA-262): the
\* upper case of the character when that is one character, and no non-ASCII
\* character is mapped to an ASCII one.
\* Canonicalize of a RegExp without the flag i: every character is itself.
CanonicalizeCaseSensitive(ch) == ch

Canonicalize(ch) ==
    LET u == CharToUpperCase(ch)
    IN  IF Len(u) # 1 THEN ch
        ELSE IF ch \in NonAscii /\ u[1] \notin NonAscii THEN ch
        ELSE u[1]

\* The characters of the model, and Canonicalize tabulated over them.
Chars ==
    Range(LowerLetters) \cup Range(UpperLetters) \cup NonAscii
    \cup {" ", "-", ".", "'", "\"", "(", ")", "/",
          "0", "1", "2", "3", "4", "5", "6", "7", "8", "9"}

CanonicalizeTable == [ch \in Chars |-> Canonicalize(ch)]
\* new RegExp(pattern, 'i') for a pattern made of the characters of the
\* model.  Of these the dot and the parentheses are syntax characters, the
\* others stand for themselves: the constructor throws a SyntaxError when
\* the parentheses do not pair up.
RegExpSyntaxError(pattern) ==
    LET opened(n) == Cardinality({i \in 1..n : pattern[i] = "("})
        closed(n) == Cardinality({i \in 1..n : pattern[i] = ")"})
    IN  \/ \E n \in 1..Len(pattern) : closed(n) > opened(n)
        \/ opened(Len(pattern)) # closed(Len(pattern))

\* A RegExp built from such a pattern, with flag i, tested against str
\* (String.prototype.match(...) !== null): the atoms of the pattern (a group
\* is the sequence of its atoms) occur in str at some offset, a dot taking
\* any character and the other characters compared after Canonicalize.
RegExpMatches(pattern, str) ==
    LET IsAtom(ch) == ch \notin {"(", ")"}
        atoms == SelectSeq(pattern, IsAtom)
    IN  \E off \in 0..(Len(str) - Len(atoms)) :
            \A j \in 1..Len(atoms) :
                \/ atoms[j] = "."
                \/ CanonicalizeTable[str[off + j]] = CanonicalizeTable[atoms[j]]

\* The primary order of Intl.Collator's root collation over the characters
\* of the model: white space, punctuation, digits, then letters.
CollationOrder ==
    <<" ", "-", "em-dash", ".", "'", "\"", "(", ")", "/",
      "0", "1", "2", "3", "4", "5", "6", "7", "8", "9">> \o LowerLetters

BaseLetter(ch) ==
    IF IndexOf(UpperLetters, ch) >= 0
        THEN LowerLetters[IndexOf(UpperLetters, ch) + 1]
    ELSE IF IndexOf(LowerAccented, ch) >= 0
        THEN AccentedBase[IndexOf(LowerAccented, ch) + 1]
    ELSE IF IndexOf(UpperAccented, ch) >= 0
        THEN AccentedBase[IndexOf(UpperAccented, ch) + 1]
    ELSE ch

\* Collation elements of a character: <<primary, secondary, tertiary>> each.
\* Accents differ at the secondary level and letter case at the tertiary
\* level; sharp s has the primary weights of "ss".
CollationElements(ch) ==
    IF ch = "sharp-s"
        THEN <<<<IndexOf(CollationOrder, "s"), 1, 3>>,
               <<IndexOf(CollationOrder, "s"), 1, 1>>>>
    ELSE <<<<IndexOf(CollationOrder, BaseLetter(ch)),
             IF ch \in {"e:acute", "E:acute"} THEN 2
             ELSE IF ch \in {"e:grave", "E:grave", "a:grave", "A:grave"} THEN 3
             ELSE 1,
             IF ch \in Range(UpperLetters) \cup Range(UpperAccented) THEN 2
             ELSE 1>>>>

CollationTable == [ch \in Chars |-> CollationElements(ch)]

RECURSIVE CollationKey(_, _)
CollationKey(str, level) ==
    IF str = <<>> THEN <<>>
    ELSE [i \in DOMAIN CollationTable[Head(str)] |->
              CollationTable[Head(str)][i][level]]
         \o CollationKey(Tail(str), level)

\* Lexicographic comparison of two sequences of weights: -1, 0 or 1.
CompareWeights(a, b) ==
    LET n == IF Len(a) < Len(b) THEN Len(a) ELSE Len(b)
        diffs == {i \in 1..n : a[i] # b[i]}
    IN  IF diffs = {}
            THEN (IF Len(a) < Len(b) THEN -1 ELSE IF Len(a) > Len(b) THEN 1 ELSE 0)
        ELSE LET i == CHOOSE k \in diffs : \A m \in diffs : k <= m
             IN  IF a[i] < b[i] THEN -1 ELSE 1

\* ToString of a value handed to a function that expects a string.
JSToString(v) ==
    IF v = Undefined THEN <<"u","n","d","e","f","i","n","e","d">>
    ELSE IF v = Null THEN <<"n","u","l","l">>
    ELSE v

\* new Intl.Collator().compare(x, y): primary weights first, then secondary,
\* then tertiary.
CollatorCompare(x, y) ==
    LET a == JSToString(x)
        b == JSToString(y)
        c1 == CompareWeights(CollationKey(a, 1), CollationKey(b, 1))
        c2 == CompareWeights(CollationKey(a, 2), CollationKey(b, 2))
        c3 == CompareWeights(CollationKey(a, 3), CollationKey(b, 3))
    IN  IF c1 # 0 THEN c1 ELSE IF c2 # 0 THEN c2 ELSE c3
(***************************************************************************)
(* Objects.  An object is a function from property names to values; a      *)
(* property that is not there reads as undefined.                          *)
(***************************************************************************)
Get(obj, key) == IF key \in DOMAIN obj THEN obj[key] ELSE Undefined

\* typeof v, for the values of the model.
TypeOf(v) ==
    IF v = Undefined THEN "undefined"
    ELSE IF v = Null THEN "object"
    ELSE IF v \in {<<"false">>, <<"true">>} THEN "boolean"
    ELSE IF v \in {Zero, Five} THEN "number"
    ELSE IF v = EmptyObject THEN "object"
    ELSE "string"

(***************************************************************************)
(* class Food                                                              *)
(***************************************************************************)
FoodKeys == {kAlias, kImgFile, kFoodEn, kFoodNative, kServing, catPerson1, catPerson2}

\* The properties the constructor sets from its argument, with the defaults
\* of the destructuring pattern (a default applies to undefined only).
FoodProperties(raw) ==
    [k \in FoodKeys |->
        IF k = kImgFile /\ Get(raw, k) = Undefined THEN <<>>
        ELSE IF k = kFoodNative /\ Get(raw, k) = Undefined THEN Get(raw, kFoodEn)
        ELSE Get(raw, k)]

\* Food.validate that checks the category of the first person only.
FoodValidateFirstCategoryOnly(food) ==
    IF food[catPerson1] = Undefined \/ food[catPerson2] = Undefined THEN "Error"
    ELSE IF \E k \in DOMAIN food : TypeOf(food[k]) # "string" THEN "TypeError"
    ELSE IF IndexOf(stdCats, food[catPerson1]) < 0 THEN "ReferenceError"
    ELSE "none"

\* Food.validate that checks the types before the presence of the categories.
FoodValidateTypesFirst(food) ==
    IF \E k \in DOMAIN food : TypeOf(food[k]) # "string" THEN "TypeError"
    ELSE IF food[catPerson1] = Undefined \/ food[catPerson2] = Undefined THEN "Error"
    ELSE IF IndexOf(stdCats, food[catPerson1]) < 0 THEN "ReferenceError"
    ELSE IF IndexOf(stdCats, food[catPerson2]) < 0 THEN "ReferenceError"
    ELSE "none"

\* Food.validate: "none" when the object is valid, else the error thrown.
\* The messages of the two category errors read catKeys, a name that is
\* declared nowhere, so that building them throws a ReferenceError.
FoodValidate(food) ==
    IF food[catPerson1] = Undefined \/ food[catPerson2] = Undefined THEN "Error"
    ELSE IF \E k \in DOMAIN food : TypeOf(food[k]) # "string" THEN "TypeError"
    ELSE IF IndexOf(stdCats, food[catPerson1]) < 0 THEN "ReferenceError"
    ELSE IF IndexOf(stdCats, food[catPerson2]) < 0 THEN "ReferenceError"
    ELSE "none"

\* new Food(raw): an instance of class Food holding the properties set by
\* the constructor, or the error validate throws (an object of that class).
\* Destructuring null or undefined throws a TypeError.
FoodNew(raw) ==
    IF raw \in {Null, Undefined} THEN [class |-> "TypeError", props |-> <<>>]
    ELSE IF FoodValidate(FoodProperties(raw)) = "none"
        THEN [class |-> "Food", props |-> FoodProperties(raw)]
    ELSE [class |-> FoodValidate(FoodProperties(raw)), props |-> <<>>]

(***************************************************************************)
(* class FoodQuery                                                         *)
(***************************************************************************)
\* The characters of the class of filterRegEx: the two Unicode blocks
\* U+2000-U+206F and U+2E00-U+2E7F (one character of each in the model), the
\* ASCII punctuation the class lists, and the digits.
FilterChars ==
    {"em-dash", "double-hyphen",
     "\\", "'", "!", "#", "$", "%", "&", "(", ")", "*", "+", ",", "-", ".", "/",
     ":", ";", "<", "=", ">", "?", "@", "[", "]", "^", "_", "backtick",
     "{", "|", "}", "~",
     "0", "1", "2", "3", "4", "5", "6", "7", "8", "9"}

\* A replacement that removes the digits and nothing else.
RemoveDigits(str) ==
    LET Kept(ch) == ch \notin {"0", "1", "2", "3", "4", "5", "6", "7", "8", "9"}
    IN  SelectSeq(str, Kept)

\* String.prototype.replace(filterRegEx, '') with the flag g.
RemoveFilterChars(str) ==
    LET Kept(ch) == ch \notin FilterChars
    IN  SelectSeq(str, Kept)

\* A value the conditional takes for true (the values of the model).
Truthy(v) == v \notin {Undefined, Null, <<>>, <<"false">>, Zero}

\* The outcome of a call that throws a TypeError instead of returning.
ThrownTypeError == <<"throw TypeError">>

\* validateParamSearch that returns null when nothing is left of the string.
validateParamSearchEmptyIsNull(param) ==
    IF Truthy(param)
        THEN IF TypeOf(param) = "string"
                THEN IF RemoveFilterChars(param) = <<>> THEN Null
                     ELSE RemoveFilterChars(param)
             ELSE ThrownTypeError
    ELSE Null

\* param.replace is a function for a string only: the call throws a
\* TypeError for any other value that counts as true.
validateParamSearch(param) ==
    IF Truthy(param)
        THEN IF TypeOf(param) = "string" THEN RemoveFilterChars(param)
             ELSE ThrownTypeError
    ELSE Null

validateParamCat(param) == IF IndexOf(stdCats, param) > -1 THEN param ELSE Null

\* validateParamSort that accepts every property of a Food.
validateParamSortAnyKey(param) == IF param \in FoodKeys THEN param ELSE Null

validateParamSort(param) == IF IndexOf(sortableKeys, param) > -1 THEN param ELSE Null

\* new FoodQuery(raw): an instance of class FoodQuery with its four properties.
FoodQueryNew(raw) ==
    IF validateParamSearch(Get(raw, kSearch)) = ThrownTypeError
        THEN [class |-> "TypeError", props |-> <<>>]
    ELSE
    [class |-> "FoodQuery",
     props |-> (kSearch :> validateParamSearch(Get(raw, kSearch)))
            @@ (kSort :> validateParamSort(Get(raw, kSort)))
            @@ (catPerson1 :> validateParamCat(Get(raw, catPerson1)))
            @@ (catPerson2 :> validateParamCat(Get(raw, catPerson2)))]

(***************************************************************************)
(* Data.                                                                   *)
(***************************************************************************)
\* A raw object with the seven properties of a food.
RawFood(alias, imgFile, foodEn, foodNative, serving, cat1, cat2) ==
    (kAlias :> alias) @@ (kImgFile :> imgFile) @@ (kFoodEn :> foodEn)
    @@ (kFoodNative :> foodNative) @@ (kServing :> serving)
    @@ (catPerson1 :> cat1) @@ (catPerson2 :> cat2)

\* The five foods of the test dataset.
Barley ==
    RawFood(<<"b","a","r","l","e","y">>,
            <<"b","a","r","l","e","y",".","j","p","g">>,
            <<"B","a","r","l","e","y">>,
            <<"O","r","g","e">>,
            <<"3"," ","O","n","c","e","s"," ","(","C","u","i","t",")">>,
            Minimize, Enjoy)

CarawaySeed ==
    RawFood(<<"c","a","r","a","w","a","y","-","s","e","e","d">>,
            <<"c","a","r","a","w","a","y","-","s","e","e","d",".","j","p","g">>,
            <<"C","a","r","a","w","a","y"," ","S","e","e","d">>,
            <<"G","r","a","i","n","e"," ","D","e"," ","C","u","m","i","n">>,
            <<"1","/","4"," ","C","u","i","l","l","e:grave","r","e"," ","A:grave"," ","T","h","e:acute">>,
            Enjoy, Enjoy)

GrapeSeedOil ==
    RawFood(<<"g","r","a","p","e","-","s","e","e","d","-","o","i","l">>,
            <<"g","r","a","p","e","-","s","e","e","d","-","o","i","l",".","j","p","g">>,
            <<"G","r","a","p","e"," ","S","e","e","d"," ","O","i","l">>,
            <<"H","u","i","l","e"," ","D","e"," ","P","e:acute","p","i","n","s"," ","D","e"," ","R","a","i","s","i","n">>,
            <<"1"," ","C","u","i","l","l","e:grave","r","e"," ","A:grave"," ","S","o","u","p","e">>,
            Enjoy, Enjoy)

Rutabaga ==
    RawFood(<<"r","u","t","a","b","a","g","a">>,
            <<"r","u","t","a","b","a","g","a",".","j","p","g">>,
            <<"R","u","t","a","b","a","g","a">>,
            <<"R","u","t","a","b","a","g","a"," ","(","N","a","v","e","t",")">>,
            <<"1"," ","T","a","s","s","e"," ","(","T","r","a","n","c","h","e:acute",")">>,
            Enjoy, Enjoy)

GreenTea ==
    RawFood(<<"g","r","e","e","n","-","t","e","a">>,
            <<"g","r","e","e","n","-","t","e","a",".","j","p","g">>,
            <<"G","r","e","e","n"," ","T","e","a">>,
            <<"T","h","e:acute"," ","V","e","r","t">>,
            <<"1"," ","T","a","s","s","e">>,
            Superfood, Minimize)

TestData == <<Barley, CarawaySeed, GrapeSeedOil, Rutabaga, GreenTea>>

\* Short raw foods for the exhaustive exploration: equal names under
\* different aliases, a name with a sharp s, and an object that leaves
\* imgFile and foodNative to their defaults.
PoolFoods ==
    {(kAlias :> <<"a">>) @@ (kFoodEn :> <<"B","a">>) @@ (kServing :> <<"1">>)
        @@ (catPerson1 :> Enjoy) @@ (catPerson2 :> Enjoy),
     RawFood(<<"b">>, <<>>, <<"a","b">>, <<"B","a">>, <<"1">>, Enjoy, Minimize),
     RawFood(<<"c">>, <<>>, <<"B","a">>, <<"sharp-s">>, <<"2">>, Minimize, Enjoy)}

SeqsUpTo(S, n) == UNION {[1..m -> S] : m \in 0..n}

\* Every Food of the data, and the values a sort of them compares.
AllFoods == {FoodProperties(raw) : raw \in PoolFoods \cup Range(TestData)}

ComparedValues == {Get(f, k) : f \in AllFoods, k \in FoodKeys \cup {Null}}

\* CollatorCompare tabulated over the values of the data.
CompareTable ==
    [x \in ComparedValues |-> [y \in ComparedValues |-> CollatorCompare(x, y)]]

(***************************************************************************)
(* class FoodCollection.  The heap maps the identity of a FoodCollection   *)
(* (its index) to its elements; a method yields the heap after the call,   *)
(* the identity it returns (0 when it throws) and the error thrown.        *)
(***************************************************************************)
Result(h, r, e) == [heap |-> h, ret |-> r, err |-> e]

\* Array.prototype.filter on a FoodCollection: a new FoodCollection (built
\* empty by the species constructor) that receives the elements passing
\* the test, in order.  The callback is given as its table over the
\* elements of the receiver.
ArrayFilter(h, this, test) ==
    LET Test(e) == test[e]
    IN  Result(Append(h, SelectSeq(h[this], Test)), Len(h) + 1, "none")

\* A sort that is not stable: an element goes after the later elements
\* that compare equal.
ArraySortTiesReversed(arr, sortCb) ==
    LET n == Len(arr)
        cmp == [j \in 1..n |-> [i \in 1..n |-> sortCb[arr[j]][arr[i]]]]
        rank == [i \in 1..n |->
                    1 + Cardinality({j \in 1..n :
                            \/ cmp[j][i] < 0
                            \/ cmp[j][i] = 0 /\ j > i})]
    IN  [k \in 1..n |-> arr[CHOOSE i \in 1..n : rank[i] = k]]

\* Array.prototype.sort with a comparator: a stable sort, in place.  An
\* element goes after the elements that compare lower, and after the
\* earlier elements that compare equal.  The comparator is given as its
\* table over the elements of the array.
ArraySort(arr, sortCb) ==
    LET n == Len(arr)
        cmp == [j \in 1..n |-> [i \in 1..n |-> sortCb[arr[j]][arr[i]]]]
        rank == [i \in 1..n |->
                    1 + Cardinality({j \in 1..n :
                            \/ cmp[j][i] < 0
                            \/ cmp[j][i] = 0 /\ j < i})]
    IN  [k \in 1..n |-> arr[CHOOSE i \in 1..n : rank[i] = k]]

\* Array.prototype.reverse, in place.
ArrayReverse(arr) == [k \in 1..Len(arr) |-> arr[Len(arr) + 1 - k]]

\* filterByCat that reads the category of the first person whatever catKey.
filterByCatFirstPerson(h, this, catKey, argIn) ==
    LET arg == IF argIn = Undefined THEN Null ELSE argIn
        Test(e) == Get(e, catPerson1) = arg
    IN  IF catKey # catPerson1 /\ catKey # catPerson2 THEN Result(h, 0, "Error")
        ELSE IF arg # Null THEN ArrayFilter(h, this, [e \in Range(h[this]) |-> Test(e)])
        ELSE Result(h, this, "none")

\* filterByCat that removes the other records from the receiver itself.
filterByCatInPlace(h, this, catKey, argIn) ==
    LET arg == IF argIn = Undefined THEN Null ELSE argIn
        Test(e) == Get(e, catKey) = arg
    IN  IF catKey # catPerson1 /\ catKey # catPerson2 THEN Result(h, 0, "Error")
        ELSE IF arg # Null
            THEN Result([h EXCEPT ![this] = SelectSeq(h[this], Test)], this, "none")
        ELSE Result(h, this, "none")

\* filterByCat that checks catKey only when there is something to filter.
filterByCatLateCheck(h, this, catKey, argIn) ==
    LET arg == IF argIn = Undefined THEN Null ELSE argIn
        Test(e) == Get(e, catKey) = arg
    IN  IF arg = Null THEN Result(h, this, "none")
        ELSE IF catKey # catPerson1 /\ catKey # catPerson2 THEN Result(h, 0, "Error")
        ELSE ArrayFilter(h, this, [e \in Range(h[this]) |-> Test(e)])

\* filterByCat that filters on a null argument too, and so returns a copy.
filterByCatNullCopies(h, this, catKey, argIn) ==
    LET arg == IF argIn = Undefined THEN Null ELSE argIn
        Test(e) == arg = Null \/ Get(e, catKey) = arg
    IN  IF catKey # catPerson1 /\ catKey # catPerson2 THEN Result(h, 0, "Error")
        ELSE ArrayFilter(h, this, [e \in Range(h[this]) |-> Test(e)])

filterByCat(h, this, catKey, argIn) ==
    LET arg == IF argIn = Undefined THEN Null ELSE argIn
        Test(e) == Get(e, catKey) = arg
    IN  IF catKey # catPerson1 /\ catKey # catPerson2 THEN Result(h, 0, "Error")
        ELSE IF arg # Null THEN ArrayFilter(h, this, [e \in Range(h[this]) |-> Test(e)])
        ELSE Result(h, this, "none")

\* filterByKeyword with a RegExp built without the flag i.
filterByKeywordCaseSensitive(h, this, argIn) ==
    LET arg == IF argIn = Undefined THEN Null ELSE argIn
        Exact(str) == \E off \in 0..(Len(str) - Len(arg)) :
                          \A j \in 1..Len(arg) : str[off + j] = arg[j]
        Test(e) == Exact(e[kFoodEn]) \/ Exact(e[kFoodNative])
    IN  IF arg # Null THEN ArrayFilter(h, this, [e \in Range(h[this]) |-> Test(e)])
        ELSE Result(h, this, "none")

\* filterByKeyword that removes the other records from the receiver itself.
filterByKeywordInPlace(h, this, argIn) ==
    LET arg == IF argIn = Undefined THEN Null ELSE argIn
        Test(e) == \/ RegExpMatches(arg, e[kFoodEn])
                   \/ RegExpMatches(arg, e[kFoodNative])
    IN  IF arg # Null
            THEN IF RegExpSyntaxError(arg) THEN Result(h, 0, "SyntaxError")
                 ELSE Result([h EXCEPT ![this] = SelectSeq(h[this], Test)], this, "none")
        ELSE Result(h, this, "none")

filterByKeyword(h, this, argIn) ==
    LET arg == IF argIn = Undefined THEN Null ELSE argIn
        Test(e) == \/ RegExpMatches(arg, e[kFoodEn])
                   \/ RegExpMatches(arg, e[kFoodNative])
    IN  IF arg # Null
            THEN IF RegExpSyntaxError(arg) THEN Result(h, 0, "SyntaxError")
                 ELSE ArrayFilter(h, this, [e \in Range(h[this]) |-> Test(e)])
        ELSE Result(h, this, "none")

\* sortByProperty whose order defaults to 'dsc'.
sortByPropertyDefaultDsc(h, this, argIn, orderIn) ==
    LET arg == IF argIn = Undefined THEN Null ELSE argIn
        order == IF orderIn = Undefined THEN dsc ELSE orderIn
        sortCb(a, b) == CompareTable[Get(a, arg)][Get(b, arg)]
    IN  IF order # asc /\ order # dsc THEN Result(h, 0, "Error")
        ELSE IF arg # Null
            THEN IF order = asc
                THEN Result([h EXCEPT ![this] = ArraySort(h[this],
                        [a \in Range(h[this]) |-> [b \in Range(h[this]) |-> sortCb(a, b)]])], this, "none")
                ELSE Result([h EXCEPT ![this] = ArrayReverse(ArraySort(h[this],
                        [a \in Range(h[this]) |-> [b \in Range(h[this]) |-> sortCb(a, b)]]))],
                            this, "none")
        ELSE Result(h, this, "none")

\* sortByProperty that sorts in descending order with the comparator
\* negated, instead of reversing the ascending order.
sortByPropertyNegated(h, this, argIn, orderIn) ==
    LET arg == IF argIn = Undefined THEN Null ELSE argIn
        order == IF orderIn = Undefined THEN asc ELSE orderIn
        sortCb(a, b) == CompareTable[Get(a, arg)][Get(b, arg)]
        negatedCb(a, b) == 0 - sortCb(a, b)
    IN  IF order # asc /\ order # dsc THEN Result(h, 0, "Error")
        ELSE IF arg # Null
            THEN IF order = asc
                THEN Result([h EXCEPT ![this] = ArraySort(h[this],
                        [a \in Range(h[this]) |-> [b \in Range(h[this]) |-> sortCb(a, b)]])], this, "none")
                ELSE Result([h EXCEPT ![this] = ArraySort(h[this],
                        [a \in Range(h[this]) |-> [b \in Range(h[this]) |-> negatedCb(a, b)]])], this, "none")
        ELSE Result(h, this, "none")

\* sortByProperty that returns on a null property before it checks order.
sortByPropertyLateCheck(h, this, argIn, orderIn) ==
    LET arg == IF argIn = Undefined THEN Null ELSE argIn
        order == IF orderIn = Undefined THEN asc ELSE orderIn
        sortCb(a, b) == CompareTable[Get(a, arg)][Get(b, arg)]
    IN  IF arg = Null THEN Result(h, this, "none")
        ELSE IF order # asc /\ order # dsc THEN Result(h, 0, "Error")
        ELSE IF order = asc
            THEN Result([h EXCEPT ![this] = ArraySort(h[this],
                        [a \in Range(h[this]) |-> [b \in Range(h[this]) |-> sortCb(a, b)]])], this, "none")
        ELSE Result([h EXCEPT ![this] = ArrayReverse(ArraySort(h[this],
                        [a \in Range(h[this]) |-> [b \in Range(h[this]) |-> sortCb(a, b)]]))],
                    this, "none")

\* sortByProperty that accepts the sortable keys only.
sortByPropertyValidated(h, this, argIn, orderIn) ==
    LET arg == IF argIn = Undefined THEN Null ELSE argIn
        order == IF orderIn = Undefined THEN asc ELSE orderIn
        sortCb(a, b) == CompareTable[Get(a, arg)][Get(b, arg)]
    IN  IF order # asc /\ order # dsc THEN Result(h, 0, "Error")
        ELSE IF arg # Null /\ IndexOf(sortableKeys, arg) < 0 THEN Result(h, 0, "Error")
        ELSE IF arg # Null
            THEN IF order = asc
                THEN Result([h EXCEPT ![this] = ArraySort(h[this],
                        [a \in Range(h[this]) |-> [b \in Range(h[this]) |-> sortCb(a, b)]])], this, "none")
                ELSE Result([h EXCEPT ![this] = ArrayReverse(ArraySort(h[this],
                        [a \in Range(h[this]) |-> [b \in Range(h[this]) |-> sortCb(a, b)]]))],
                            this, "none")
        ELSE Result(h, this, "none")

sortByProperty(h, this, argIn, orderIn) ==
    LET arg == IF argIn = Undefined THEN Null ELSE argIn
        order == IF orderIn = Undefined THEN asc ELSE orderIn
        sortCb(a, b) == CompareTable[Get(a, arg)][Get(b, arg)]
    IN  IF order # asc /\ order # dsc THEN Result(h, 0, "Error")
        ELSE IF arg # Null
            THEN IF order = asc
                THEN Result([h EXCEPT ![this] = ArraySort(h[this],
                        [a \in Range(h[this]) |-> [b \in Range(h[this]) |-> sortCb(a, b)]])], this, "none")
                ELSE Result([h EXCEPT ![this] = ArrayReverse(ArraySort(h[this],
                        [a \in Range(h[this]) |-> [b \in Range(h[this]) |-> sortCb(a, b)]]))],
                            this, "none")
        ELSE Result(h, this, "none")

\* !query instanceof FoodQuery: the negation binds first, so the operand of
\* instanceof is a boolean, which is an instance of no class.
NotInstanceOfFoodQuery(query) ==
    LET negated == [class |-> "boolean", props |-> <<>>]
    IN  negated.class = "FoodQuery"

\* digest with the first category filter written twice.
digestOneCategory(h, this, query) ==
    LET r1 == filterByCat(h, this, catPerson1, Get(query.props, catPerson1))
        r2 == filterByCat(r1.heap, r1.ret, catPerson1, Get(query.props, catPerson1))
        r3 == filterByKeyword(r2.heap, r2.ret, Get(query.props, kSearch))
    IN  sortByProperty(r3.heap, r3.ret, Get(query.props, kSort), asc)

\* digest that sorts in descending order.
digestDescending(h, this, query) ==
    LET r1 == filterByCat(h, this, catPerson1, Get(query.props, catPerson1))
        r2 == filterByCat(r1.heap, r1.ret, catPerson2, Get(query.props, catPerson2))
        r3 == filterByKeyword(r2.heap, r2.ret, Get(query.props, kSearch))
    IN  sortByProperty(r3.heap, r3.ret, Get(query.props, kSort), dsc)

digest(h, this, query) ==
    IF NotInstanceOfFoodQuery(query) THEN Result(h, 0, "TypeError")
    ELSE
    LET r1 == filterByCat(h, this, catPerson1, Get(query.props, catPerson1))
    IN  IF r1.err # "none" THEN r1 ELSE
    LET r2 == filterByCat(r1.heap, r1.ret, catPerson2, Get(query.props, catPerson2))
    IN  IF r2.err # "none" THEN r2 ELSE
    LET r3 == filterByKeyword(r2.heap, r2.ret, Get(query.props, kSearch))
    IN  IF r3.err # "none" THEN r3 ELSE
        sortByProperty(r3.heap, r3.ret, Get(query.props, kSort), asc)

\* new FoodCollection(items) for an array of raw objects: each element is
\* replaced by the Food built from it, and construction succeeds only when
\* every Food is valid.
FoodCollectionNew(items) == [i \in DOMAIN items |-> FoodProperties(items[i])]

FoodCollectionValid(items) ==
    \A i \in DOMAIN items : FoodValidate(FoodProperties(items[i])) = "none"

\* A value with its kind: an instance of Food, a plain object or an array
\* (props holds the properties, or the elements), or a primitive value
\* (props holds the value).
Value(class, props) == [class |-> class, props |-> props]

\* An empty slot of an array (no element at that index).
Hole == Value("hole", <<>>)

\* The length of the array that new Array(n) makes for the numbers of the
\* model, both valid array lengths.
ArrayLength(n) == IF n = Zero THEN 0 ELSE 5

\* super(...elements), the constructor of Array: one argument that is a
\* number makes an array of that length whose slots are empty, any other
\* arguments are the elements.
ArrayNew(elements) ==
    IF Len(elements) = 1 /\ elements[1].class = "number"
        THEN [i \in 1..ArrayLength(elements[1].props) |-> Hole]
    ELSE elements

\* What the callback of FoodCollection.validate does with element e: the
\* Food it leaves at that index, or the error it throws (an object of that
\* class).  typeof null is 'object', and so is typeof of an array.
ValidateElement(e) ==
    IF e.class = "Food"
        THEN IF FoodValidate(e.props) = "none" THEN e
             ELSE Value(FoodValidate(e.props), <<>>)
    ELSE IF e.class \in {"Object", "null", "Array"}
        THEN FoodNew(IF e.class = "Array" THEN <<>> ELSE e.props)
    ELSE Value("TypeError", <<>>)

\* new FoodCollection(...items) that takes the arguments after an array
\* for elements too.
FoodCollectionConstructAllItems(items) ==
    LET elements == IF Len(items) > 0 /\ items[1].class = "Array"
                        THEN items[1].props \o Tail(items) ELSE items
        array == ArrayNew(elements)
        done == [i \in DOMAIN array |->
                    IF array[i] = Hole THEN Value("Food", Hole)
                    ELSE ValidateElement(array[i])]
        failed == {i \in DOMAIN array : done[i].class # "Food"}
    IN  IF failed = {}
            THEN Value("FoodCollection", [i \in DOMAIN array |-> done[i].props])
        ELSE Value(done[CHOOSE i \in failed : \A j \in failed : i <= j].class, <<>>)

\* new FoodCollection(...items) for any arguments: the collection (the
\* properties of each Food, and the empty slots, which forEach skips), or
\* the first error thrown.
FoodCollectionConstruct(items) ==
    LET elements == IF Len(items) > 0 /\ items[1].class = "Array"
                        THEN items[1].props ELSE items
        array == ArrayNew(elements)
        done == [i \in DOMAIN array |->
                    IF array[i] = Hole THEN Value("Food", Hole)
                    ELSE ValidateElement(array[i])]
        failed == {i \in DOMAIN array : done[i].class # "Food"}
    IN  IF failed = {}
            THEN Value("FoodCollection", [i \in DOMAIN array |-> done[i].props])
        ELSE Value(done[CHOOSE i \in failed : \A j \in failed : i <= j].class, <<>>)

(***************************************************************************)
(* The arguments the exploration calls the methods with.                   *)
(***************************************************************************)
kError == <<"e","r","r","o","r">>

\* The raw search keywords: among them keywords with syntax characters of
\* a regular expression.
RawSearches ==
    {Undefined, <<>>, <<"g","r","a">>, <<"a","b">>, <<"sharp-s">>, <<"1","2","3">>, <<"a",".","b">>,
     <<"(","a","b">>, <<"B",".","1">>, <<"(","g",".",")","r","a">>}

\* A category key in the wrong letter case.
kCatRomeoLower == <<"c","a","t","r","o","m","e","o">>

CatKeys == {catPerson1, catPerson2, kError, kCatRomeoLower, Undefined}
CatArgs == {Null, Undefined, Enjoy, Minimize}
Keywords == {validateParamSearch(r) : r \in RawSearches} \cup {Undefined}
SortArgs == {Null, Undefined, kFoodEn, kFoodNative, catPerson1, kImgFile, kError}
Orders == {asc, dsc, Undefined, Null, kError}

RawQueries ==
    {(kSearch :> s) @@ (kSort :> o) @@ (catPerson1 :> c1) @@ (catPerson2 :> c2) :
        s \in {Undefined, <<"g","r","a">>, <<"a","b">>, <<"1","2","3">>},
        o \in {Undefined, kFoodEn, kFoodNative, kServing},
        c1 \in {Undefined, Enjoy, kError},
        c2 \in {Undefined, Enjoy}}

FoodQueries == {FoodQueryNew(raw) : raw \in RawQueries}

\* Plain objects handed to digest in the place of a FoodQuery: an empty
\* object, and objects whose values went through no validation.
PlainQueries ==
    {[class |-> "Object", props |-> raw] :
        raw \in {<<>>,
                 (kSearch :> <<"B","a">>) @@ (kSort :> kImgFile),
                 (catPerson1 :> kError)}}

\* The arguments handed to digest.
DigestArgs == FoodQueries \cup PlainQueries

(***************************************************************************)
(* The state machine.  A client constructs one FoodCollection and then     *)
(* calls any method, with any argument, on that collection or on the       *)
(* latest collection a call created.  heap[1] is the constructed           *)
(* collection and heap[2], when there is one, the latest collection a call *)
(* created and returned; the collections a call creates and does not       *)
(* return are unreachable when it returns.  last records the call that has *)
(* just returned: the method, the receiver, the arguments, the heap before *)
(* the call and the outcome of the call (the heap after it, with every     *)
(* collection it created, the identity it returned and the error it        *)
(* threw).  The client then goes on, and the record is dropped.  parent is  *)
(* the identity of the collection heap[2] was made from, 0 when there is   *)
(* no heap[2] or when that collection is no longer reachable.              *)
(***************************************************************************)
NoCall == [op |-> "none", recv |-> 0, args |-> <<>>, pre |-> <<>>,
           out |-> Result(<<>>, 0, "none")]

Reachable(h, r) ==
    IF r.ret > Len(h) THEN <<r.heap[1], r.heap[r.ret]>>
    ELSE SubSeq(r.heap, 1, Len(h))

Call(op, this, args, r) ==
    /\ last = NoCall
    /\ heap' = Reachable(heap, r)
    /\ parent' = IF r.ret <= Len(heap) THEN parent ELSE IF this = 1 THEN 1 ELSE 0
    /\ last' = [op |-> op, recv |-> this, args |-> args, pre |-> heap, out |-> r]

Init ==
    /\ \E items \in SeqsUpTo(PoolFoods, MaxLen) \cup {TestData} :
        /\ FoodCollectionValid(items)
        /\ heap = <<FoodCollectionNew(items)>>
    /\ parent = 0
    /\ last = NoCall

FilterByCat ==
    \E this \in DOMAIN heap, catKey \in CatKeys, arg \in CatArgs :
        Call("filterByCat", this, <<catKey, arg>>, filterByCat(heap, this, catKey, arg))

FilterByKeyword ==
    \E this \in DOMAIN heap, arg \in Keywords :
        Call("filterByKeyword", this, <<arg>>, filterByKeyword(heap, this, arg))

SortByProperty ==
    \E this \in DOMAIN heap, arg \in SortArgs, order \in Orders :
        Call("sortByProperty", this, <<arg, order>>, sortByProperty(heap, this, arg, order))

Digest ==
    \E this \in DOMAIN heap, query \in DigestArgs :
        Call("digest", this, <<query>>, digest(heap, this, query))

Continue ==
    /\ last # NoCall
    /\ last' = NoCall
    /\ UNCHANGED <<heap, parent>>

Next == FilterByCat \/ FilterByKeyword \/ SortByProperty \/ Digest \/ Continue

Spec == Init /\ [][Next]_vars

(***************************************************************************)
(* A second state machine, for the constructors and the validators: a      *)
(* client constructs a Food or a FoodQuery, or calls a validator of a      *)
(* FoodQuery, with any argument.  last records the call as above; the      *)
(* outcome holds the value returned, or the class of the error thrown.     *)
(***************************************************************************)
\* The values handed to the validators.
ParamInputs ==
    {Undefined, Null, <<>>, False, True, Zero, Five, EmptyObject,
     <<"g","r","a">>, <<"i","t","'","s",","," ","#","1","!">>,
     <<"a","\"","b">>, <<"em-dash","a","double-hyphen","e:acute">>,
     <<"a","b"," ","[","]","backtick","\\","9">>,
     Superfood, Enjoy, Minimize, Avoid, <<"e","n","j","o","y">>, kError,
     kAlias, kFoodEn, kFoodNative, catPerson1, catPerson2, kCatRomeoLower,
     kServing, kImgFile}

\* The objects handed to new FoodQuery().
RawQueryInputs ==
    {(kSearch :> s) @@ (kSort :> o) @@ (catPerson1 :> c1) @@ (catPerson2 :> c2) :
        s \in {Undefined, Null, <<>>, Zero, Five, True, EmptyObject,
               <<"g","r","a">>, <<"a","\"","b">>, <<"1","2","3">>},
        o \in {Undefined, kFoodEn, kServing, Five},
        c1 \in {Undefined, Enjoy, kError},
        c2 \in {Null, Avoid, True}}

\* The objects handed to new Food(): each property present with a string,
\* present with another value, or absent (undefined).
RawFoodInputs ==
    {RawFood(alias, imgFile, foodEn, foodNative, serving, cat1, cat2) :
        alias \in {<<"a">>, Undefined},
        imgFile \in {Undefined, <<"a",".","j","p","g">>, Null},
        foodEn \in {<<"B","a">>, False},
        foodNative \in {Undefined, <<"O","r","g","e">>, Five},
        serving \in {<<"1">>, Five},
        cat1 \in {Enjoy, kError, Undefined, Null, Five},
        cat2 \in {Superfood, <<"e","n","j","o","y">>, Undefined}}
    \cup {Null, Undefined, <<>>}

\* The arguments handed to new FoodCollection(): objects that make a Food
\* and objects that do not, instances of Food (one altered after its
\* construction), primitive values and null; as arguments or in an array.
GoodRaw ==
    (kAlias :> <<"a">>) @@ (kFoodEn :> <<"B","a">>) @@ (kServing :> <<"1">>)
        @@ (catPerson1 :> Enjoy) @@ (catPerson2 :> Enjoy)

\* A second object that makes a Food, with every property given.
OtherRaw == RawFood(<<"b">>, <<>>, <<"a","b">>, <<"B","a">>, <<"1">>, Enjoy, Minimize)

ItemInputs ==
    {Value("Object", GoodRaw),
     Value("Food", FoodProperties(OtherRaw)),
     Value("Object", [GoodRaw EXCEPT ![catPerson1] = kError]),
     Value("Object", (<<"a">> :> <<"1">>) @@ (<<"b">> :> <<"2">>)),
     Value("Food", FoodProperties(GoodRaw)),
     Value("Food", [FoodProperties(GoodRaw) EXCEPT ![catPerson1] = kError]),
     Value("number", Five), Value("number", Zero),
     Value("string", <<"a","b","c">>), Value("boolean", True),
     Value("null", Null)}

ItemLists ==
    LET lists == SeqsUpTo(ItemInputs, MaxItems)
    IN  lists \cup {<<Value("Array", l)>> : l \in lists}
              \cup {<<Value("Array", l), e>> : l \in lists, e \in ItemInputs}

\* The outcome of a call that returns value or throws it.
Outcome(value, thrown) ==
    Result(heap, IF thrown THEN 0 ELSE value, IF thrown THEN value ELSE "none")

Made(op, args, out) ==
    /\ last = NoCall
    /\ last' = [op |-> op, recv |-> 0, args |-> args, pre |-> heap, out |-> out]
    /\ UNCHANGED <<heap, parent>>

InitConstruct == heap = <<>> /\ parent = 0 /\ last = NoCall

NewFood ==
    \E raw \in RawFoodInputs :
        Made("Food", <<raw>>,
             LET food == FoodNew(raw)
             IN  IF food.class = "Food" THEN Outcome(food, FALSE)
                 ELSE Outcome(food.class, TRUE))

NewFoodQuery ==
    \E raw \in RawQueryInputs :
        Made("FoodQuery", <<raw>>,
             LET query == FoodQueryNew(raw)
             IN  IF query.class = "FoodQuery" THEN Outcome(query, FALSE)
                 ELSE Outcome(query.class, TRUE))

NewFoodCollection ==
    \E items \in ItemLists :
        Made("FoodCollection", items,
             LET made == FoodCollectionConstruct(items)
             IN  IF made.class = "FoodCollection" THEN Outcome(made.props, FALSE)
                 ELSE Outcome(made.class, TRUE))

ValidateParamSearch ==
    \E param \in ParamInputs :
        Made("validateParamSearch", <<param>>,
             IF validateParamSearch(param) = ThrownTypeError
                 THEN Outcome("TypeError", TRUE)
             ELSE Outcome(validateParamSearch(param), FALSE))

ValidateParamCat ==
    \E param \in ParamInputs :
        Made("validateParamCat", <<param>>, Outcome(validateParamCat(param), FALSE))

ValidateParamSort ==
    \E param \in ParamInputs :
        Made("validateParamSort", <<param>>, Outcome(validateParamSort(param), FALSE))

NextConstruct ==
    \/ NewFood
    \/ NewFoodQuery
    \/ NewFoodCollection
    \/ ValidateParamSearch
    \/ ValidateParamCat
    \/ ValidateParamSort
    \/ Continue

SpecConstruct == InitConstruct /\ [][NextConstruct]_vars

(***************************************************************************)
(* Properties.  They are stated on the record of the call that has just    *)
(* returned.                                                               *)
(***************************************************************************)
\* The receiver before the call, the receiver after it, and the collection
\* the call returned.
Before == last.pre[last.recv]
After == last.out.heap[last.recv]
Returned == last.out.heap[last.out.ret]

Succeeded == last.out.err = "none" /\ last.out.ret \in DOMAIN last.out.heap

\* The call returned its receiver and changed no collection.
ReturnedReceiverUnchanged ==
    /\ last.out.err = "none"
    /\ last.out.ret = last.recv
    /\ last.out.heap = last.pre

\* The call returned a collection that did not exist before the call.
ReturnedNew == last.out.err = "none" /\ last.out.ret > Len(last.pre)

\* Every collection that existed before the call holds the same records in
\* the same order after it.
NothingChanged ==
    \A c \in DOMAIN last.pre : last.out.heap[c] = last.pre[c]

Count(seq, x) == Cardinality({i \in DOMAIN seq : seq[i] = x})

\* The same records, each as many times, in any order.
IsPermutation(a, b) ==
    /\ Len(a) = Len(b)
    /\ \A x \in Range(a) \cup Range(b) : Count(a, x) = Count(b, x)

\* Consecutive records are non-decreasing in field f under the collation.
IsAscending(seq, f) ==
    \A i \in 1..(Len(seq) - 1) :
        CompareTable[Get(seq[i], f)][Get(seq[i + 1], f)] <= 0

\* Two characters are the same letter when they are equal or one is the
\* upper case of the other.
UpperCaseTable == [ch \in Chars |-> CharToUpperCase(ch)]

SameLetter(x, y) ==
    x = y \/ UpperCaseTable[x] = <<y>> \/ UpperCaseTable[y] = <<x>>

\* str contains k as a substring, ignoring letter case.
ContainsIgnoringCase(str, k) ==
    \E i \in 1..(Len(str) - Len(k) + 1) :
        \A j \in 1..Len(k) : SameLetter(str[i + j - 1], k[j])

NameContains(r, k) ==
    ContainsIgnoringCase(r[kFoodEn], k) \/ ContainsIgnoringCase(r[kFoodNative], k)

IsFoodQuery(q) == q.class = "FoodQuery"

\* A record satisfies every criterion of the query that is not null.
Satisfies(r, q) ==
    /\ q.props[catPerson1] # Null => r[catPerson1] = q.props[catPerson1]
    /\ q.props[catPerson2] # Null => r[catPerson2] = q.props[catPerson2]
    /\ q.props[kSearch] # Null => NameContains(r, q.props[kSearch])

\* The records of seq that satisfy the query, in the order of seq.
Satisfying(seq, q) ==
    LET Test(r) == Satisfies(r, q) IN SelectSeq(seq, Test)

\* The query of the test of digest, and the two foods the test expects.
TestQuery ==
    FoodQueryNew((kSearch :> <<"g","r","a">>) @@ (kSort :> kFoodEn)
                 @@ (catPerson1 :> Enjoy) @@ (catPerson2 :> Enjoy))

TestExpected == FoodCollectionNew(<<CarawaySeed, GrapeSeedOil>>)
(***************************************************************************)
(* C1.  digest never mutates its receiver: after C.digest(q) returns, C    *)
(* holds the same records in the same order as before the call, whatever   *)
(* the fields of q.                                                        *)
(***************************************************************************)
C1_DigestKeepsReceiver ==
    last.op = "digest" /\ IsFoodQuery(last.args[1]) => After = Before

(***************************************************************************)
(* C2.  C.digest(q) holds exactly the records of C that satisfy every      *)
(* criterion of q that is not null, ascending in the field q.sort when     *)
(* q.sort is not null and in the order of C otherwise; on the test dataset *)
(* the query of the test gives caraway-seed then grape-seed-oil.           *)
(***************************************************************************)
C2_DigestResult ==
    last.op = "digest" /\ IsFoodQuery(last.args[1]) =>
        LET q == last.args[1]
            f == q.props[kSort]
            expected == Satisfying(Before, q)
        IN  /\ Succeeded
            /\ IsPermutation(Returned, expected)
            /\ f = Null => Returned = expected
            /\ f # Null => IsAscending(Returned, f)
            /\ q = TestQuery /\ IsPermutation(Before, FoodCollectionNew(TestData))
                    => Returned = TestExpected

C2_Witness ==
    /\ last.op = "digest"
    /\ last.args[1] = TestQuery
    /\ IsPermutation(Before, FoodCollectionNew(TestData))
    /\ Returned = TestExpected

(***************************************************************************)
(* C3.  C.digest(q) returns what the chain filterByCat(catPerson1, ...),   *)
(* filterByCat(catPerson2, ...), filterByKeyword(q.search),                *)
(* sortByProperty(q.sort, 'asc') returns, and leaves every collection in   *)
(* the state that chain leaves it in.                                      *)
(***************************************************************************)
Pipeline(h, this, q) ==
    LET s1 == filterByCat(h, this, catPerson1, q.props[catPerson1])
        s2 == filterByCat(s1.heap, s1.ret, catPerson2, q.props[catPerson2])
        s3 == filterByKeyword(s2.heap, s2.ret, q.props[kSearch])
    IN  sortByProperty(s3.heap, s3.ret, q.props[kSort], asc)

C3_DigestIsPipeline ==
    last.op = "digest" /\ IsFoodQuery(last.args[1]) =>
        /\ last.out = Pipeline(last.pre, last.recv, last.args[1])
        /\ last.out.err = "none"

C3_Witness ==
    /\ last.op = "digest"
    /\ \A k \in DOMAIN last.args[1].props : last.args[1].props[k] # Null
    /\ Len(last.out.heap) = Len(last.pre) + 3
    /\ Len(Returned) >= 2
    /\ Returned # Satisfying(Before, last.args[1])
(***************************************************************************)
(* C4.  filterByCat with a valid key and a null value, filterByKeyword     *)
(* with null, sortByProperty with a null property and the order 'asc' or   *)
(* 'dsc', and digest with a query whose four fields are null each return   *)
(* the receiver itself and change nothing.                                 *)
(***************************************************************************)
IsNull(v) == v \in {Null, Undefined}

C4_NoOpIdentity ==
    /\ (last.op = "filterByCat" /\ last.args[1] \in {catPerson1, catPerson2}
            /\ IsNull(last.args[2]))
        => ReturnedReceiverUnchanged
    /\ (last.op = "filterByKeyword" /\ IsNull(last.args[1]))
        => ReturnedReceiverUnchanged
    /\ (last.op = "sortByProperty" /\ IsNull(last.args[1])
            /\ last.args[2] \in {asc, dsc})
        => ReturnedReceiverUnchanged
    /\ (last.op = "digest" /\ IsFoodQuery(last.args[1])
            /\ (\A k \in DOMAIN last.args[1].props : last.args[1].props[k] = Null))
        => ReturnedReceiverUnchanged

C4_Witness ==
    /\ last.op = "filterByCat"
    /\ last.args = <<catPerson2, Null>>
    /\ Len(Before) >= 2
    /\ ReturnedReceiverUnchanged

(***************************************************************************)
(* C5.  filterByCat(f, v) with a valid key f and a value v that is not     *)
(* null holds every record of the receiver whose field f equals v, no      *)
(* other record, and the records it holds are in the order they have in    *)
(* the receiver.                                                           *)
(***************************************************************************)
C5_CategoryFilterExact ==
    last.op = "filterByCat" /\ last.args[1] \in {catPerson1, catPerson2}
            /\ ~IsNull(last.args[2]) =>
        LET f == last.args[1]
            v == last.args[2]
            Equal(r) == r[f] = v
        IN  /\ Succeeded
            /\ \A i \in DOMAIN Returned : Returned[i][f] = v
            /\ \A i \in DOMAIN Before :
                    Before[i][f] = v => Count(Returned, Before[i]) = Count(Before, Before[i])
            /\ Returned = SelectSeq(Before, Equal)

C5_Witness ==
    /\ last.op = "filterByCat"
    /\ last.args = <<catPerson2, Enjoy>>
    /\ Succeeded
    /\ Len(Returned) >= 2
    /\ Len(Returned) < Len(Before)

(***************************************************************************)
(* C6.  filterByKeyword(k) with a sanitized keyword k that is not null     *)
(* holds exactly the records of the receiver whose foodEn or foodNative    *)
(* contains k ignoring letter case, in the order of the receiver; and      *)
(* filterByKeyword of k converted to upper case holds the same records.    *)
(* The last part fails for a keyword with a sharp s, whose upper case is   *)
(* "SS": C6_KeywordFilterAnyKeyword states the claim as it is written,     *)
(* C6_KeywordFilter states it for the keywords whose characters each have  *)
(* a single upper case character that the match ignoring case takes for    *)
(* the same character.                                                     *)
(***************************************************************************)
KeywordFilterExact ==
    LET k == last.args[1]
        Contains(r) == NameContains(r, k)
    IN  Succeeded /\ Returned = SelectSeq(Before, Contains)

SameAsUpperCase ==
    LET k == last.args[1]
        upper == filterByKeyword(last.pre, last.recv, ToUpperCase(k))
    IN  upper.err = "none" /\ upper.heap[upper.ret] = Returned

SimpleUpperCase(k) ==
    \A j \in DOMAIN k : CharToUpperCase(k[j]) = <<Canonicalize(k[j])>>

C6_KeywordFilterAnyKeyword ==
    last.op = "filterByKeyword" /\ ~IsNull(last.args[1]) =>
        KeywordFilterExact /\ SameAsUpperCase

C6_KeywordFilter ==
    last.op = "filterByKeyword" /\ ~IsNull(last.args[1]) =>
        /\ KeywordFilterExact
        /\ SimpleUpperCase(last.args[1]) => SameAsUpperCase

C6_Witness ==
    /\ last.op = "filterByKeyword"
    /\ last.args[1] = <<"g","r","a">>
    /\ ToUpperCase(last.args[1]) # last.args[1]
    /\ SimpleUpperCase(last.args[1])
    /\ Succeeded
    /\ Len(Returned) = 2
    /\ Len(Before) > 2

(***************************************************************************)
(* C7.  filterByCat and filterByKeyword with an argument that is not null  *)
(* return a new collection and leave the receiver as it was; a later       *)
(* sortByProperty on the returned collection does not change the order of  *)
(* the collection it was filtered from.                                    *)
(***************************************************************************)
C7_FiltersCopy ==
    /\ (last.op = "filterByCat" /\ last.args[1] \in {catPerson1, catPerson2}
            /\ ~IsNull(last.args[2])) =>
        ReturnedNew /\ NothingChanged
    /\ (last.op = "filterByKeyword" /\ ~IsNull(last.args[1])) =>
        ReturnedNew /\ NothingChanged
    /\ last.op = "sortByProperty" =>
        \A c \in DOMAIN last.pre : c # last.recv => last.out.heap[c] = last.pre[c]

C7_Witness ==
    /\ last.op = "sortByProperty"
    /\ last.recv = 2
    /\ parent = 1
    /\ After # Before
    /\ Len(last.pre[1]) > Len(Before)
    /\ last.out.heap[1] = last.pre[1]

(***************************************************************************)
(* C8.  sortByProperty(f) with a sortable field f, the order 'asc' or left *)
(* out, returns the receiver itself, whose consecutive records are then    *)
(* non-decreasing in f under the collation, and whose records are a        *)
(* permutation of the records before the call.                             *)
(***************************************************************************)
C8_AscendingSort ==
    last.op = "sortByProperty" /\ ~IsNull(last.args[1])
            /\ last.args[2] \in {asc, Undefined} =>
        /\ last.out.err = "none"
        /\ last.out.ret = last.recv
        /\ Len(last.out.heap) = Len(last.pre)
        /\ IsAscending(After, last.args[1])
        /\ IsPermutation(After, Before)

C8_Witness ==
    /\ last.op = "sortByProperty"
    /\ last.args = <<kFoodNative, Undefined>>
    /\ After # Before
    /\ Len(After) >= 3
    /\ last.out.ret = last.recv

(***************************************************************************)
(* C9.  The order sortByProperty(f, 'dsc') leaves the receiver in is the   *)
(* exact reverse of the order sortByProperty(f, 'asc') leaves it in from   *)
(* the same starting order, also when records have equal values of f.      *)
(***************************************************************************)
IsReverse(a, b) ==
    /\ Len(a) = Len(b)
    /\ \A i \in DOMAIN a : a[i] = b[Len(b) + 1 - i]

C9_DescendingIsReverse ==
    last.op = "sortByProperty" /\ ~IsNull(last.args[1]) /\ last.args[2] = dsc =>
        LET ascending == sortByProperty(last.pre, last.recv, last.args[1], asc)
        IN  /\ last.out.err = "none"
            /\ last.out.ret = last.recv
            /\ IsAscending(ascending.heap[last.recv], last.args[1])
            /\ IsReverse(After, ascending.heap[last.recv])

C9_Witness ==
    /\ last.op = "sortByProperty"
    /\ last.args[2] = dsc
    /\ ~IsNull(last.args[1])
    /\ \E i, j \in DOMAIN Before :
        /\ i < j
        /\ Before[i] # Before[j]
        /\ Get(Before[i], last.args[1]) = Get(Before[j], last.args[1])
    /\ After # Before

(***************************************************************************)
(* C10.  sortByProperty fails when order is neither 'asc' nor 'dsc', for   *)
(* every property, null included, and the receiver is then unchanged.      *)
(***************************************************************************)
C10_BadOrderFails ==
    last.op = "sortByProperty" /\ last.args[2] \notin {asc, dsc, Undefined} =>
        /\ last.out.err = "Error"
        /\ last.out.ret = 0
        /\ last.out.heap = last.pre

C10_Witness ==
    /\ last.op = "sortByProperty"
    /\ last.args = <<Null, kError>>
    /\ last.out.err = "Error"
    /\ Len(Before) >= 2

(***************************************************************************)
(* C11.  filterByCat with a category key that is not exactly one of the    *)
(* two category keys throws, whatever the value (null and omitted          *)
(* included); no collection is returned and no collection changes.         *)
(***************************************************************************)
C11_BadCatKeyFails ==
    (last.op = "filterByCat" /\ last.args[1] \notin {catPerson1, catPerson2}) =>
        /\ last.out.err = "Error"
        /\ last.out.ret = 0
        /\ last.out.heap = last.pre

C11_Witness ==
    /\ last.op = "filterByCat"
    /\ last.args = <<kCatRomeoLower, Undefined>>
    /\ Len(Before) >= 2
    /\ last.out.err = "Error"
    /\ last.out.heap = last.pre

(***************************************************************************)
(* C12.  sortByProperty does not validate the property it sorts by.  As    *)
(* the claim is written, a property that is not null and not among         *)
(* sortableKeys makes a call with a valid order throw:                     *)
(* C12_UnsortableFieldFails.  What the code does is C12_UnsortableFieldSorts: *)
(* the call returns the receiver itself, which holds the same records,     *)
(* ordered by the values of that property under the collation (for 'dsc',  *)
(* in the reverse of such an order); a property no record has reads as     *)
(* undefined for each, so that the order stays with 'asc' and is reversed  *)
(* with 'dsc'.                                                             *)
(***************************************************************************)
UnsortableFieldCall ==
    /\ last.op = "sortByProperty"
    /\ ~IsNull(last.args[1])
    /\ last.args[1] \notin Range(sortableKeys)
    /\ last.args[2] \in {asc, dsc, Undefined}

C12_UnsortableFieldFails == UnsortableFieldCall => last.out.err # "none"

C12_UnsortableFieldSorts ==
    UnsortableFieldCall =>
        LET f == last.args[1]
            ordered == IF last.args[2] = dsc THEN ArrayReverse(After) ELSE After
        IN  /\ last.out.err = "none"
            /\ last.out.ret = last.recv
            /\ Len(last.out.heap) = Len(last.pre)
            /\ IsPermutation(After, Before)
            /\ \A i \in 1..(Len(ordered) - 1) :
                    CompareTable[Get(ordered[i], f)][Get(ordered[i + 1], f)] <= 0
            /\ f \notin FoodKeys => ordered = Before

C12_Witness ==
    /\ last.op = "sortByProperty"
    /\ last.args = <<kImgFile, asc>>
    /\ last.out.err = "none"
    /\ After # Before

(***************************************************************************)
(* C13.  digest with an argument that is no instance of FoodQuery throws   *)
(* and neither filters nor sorts: no collection is returned, none is       *)
(* created and none changes.                                               *)
(***************************************************************************)
C13_NonQueryFails ==
    (last.op = "digest" /\ ~IsFoodQuery(last.args[1])) =>
        /\ last.out.err # "none"
        /\ last.out.ret = 0
        /\ last.out.heap = last.pre

(***************************************************************************)
(* C14.  The validators never throw: validateParamSearch,                  *)
(* validateParamCat and validateParamSort return null or a valid value     *)
(* for an argument of any type, and new FoodQuery() with an object holding *)
(* such values throws nothing.                                             *)
(***************************************************************************)
IsString(v) == TypeOf(v) = "string"

C14_SanitizationNeverThrows ==
    /\ last.op \in {"validateParamSearch", "validateParamCat",
                    "validateParamSort", "FoodQuery"} => last.out.err = "none"
    /\ last.op = "validateParamSearch" => last.out.ret = Null \/ IsString(last.out.ret)
    /\ last.op = "validateParamCat" => last.out.ret \in {Null} \cup Range(stdCats)
    /\ last.op = "validateParamSort" => last.out.ret \in {Null} \cup Range(sortableKeys)

(***************************************************************************)
(* C15.  validateParamSearch returns null for an argument that counts as   *)
(* false and, for a string that is not empty, the string without the       *)
(* characters of the blocks U+2000-U+206F and U+2E00-U+2E7F, without the   *)
(* ASCII punctuation and without the digits, every other character kept    *)
(* in its place.                                                           *)
(***************************************************************************)
\* The 32 punctuation characters of ASCII.
AsciiPunctuation ==
    {"!", "\"", "#", "$", "%", "&", "'", "(", ")", "*", "+", ",", "-", ".", "/",
     ":", ";", "<", "=", ">", "?", "@", "[", "\\", "]", "^", "_", "backtick",
     "{", "|", "}", "~"}

AsciiDigits == {"0", "1", "2", "3", "4", "5", "6", "7", "8", "9"}

\* The characters of the model in the two Unicode blocks.
UnicodePunctuation == {"em-dash", "double-hyphen"}

C15_SearchSanitized ==
    last.op = "validateParamSearch" =>
        LET param == last.args[1]
            Kept(ch) == ch \notin UnicodePunctuation \cup AsciiPunctuation \cup AsciiDigits
        IN  /\ ~Truthy(param) => last.out.err = "none" /\ last.out.ret = Null
            /\ (IsString(param) /\ param # <<>>) =>
                    last.out.err = "none" /\ last.out.ret = SelectSeq(param, Kept)

(***************************************************************************)
(* C16.  validateParamCat returns its argument when it is exactly          *)
(* 'Superfood', 'Enjoy', 'Minimize' or 'Avoid' and null otherwise;         *)
(* validateParamSort returns its argument when it is exactly 'alias',      *)
(* 'foodEn', 'foodNative' or one of the two category keys and null         *)
(* otherwise, so that 'serving' and 'imgFile' give null.                   *)
(***************************************************************************)
C16_CatAndSortValidated ==
    /\ last.op = "validateParamCat" =>
        /\ last.out.err = "none"
        /\ last.out.ret =
                IF last.args[1] \in {Superfood, Enjoy, Minimize, Avoid}
                    THEN last.args[1] ELSE Null
    /\ last.op = "validateParamSort" =>
        /\ last.out.err = "none"
        /\ last.out.ret =
                IF last.args[1] \in {kAlias, kFoodEn, kFoodNative,
                                     <<"c","a","t","R","o","m","e","o">>,
                                     <<"c","a","t","J","u","l","i","e","t">>}
                    THEN last.args[1] ELSE Null

C16_Witness ==
    /\ last.op = "validateParamSort"
    /\ last.args = <<kServing>>
    /\ last.out.ret = Null

(***************************************************************************)
(* C17.  Every property of a FoodQuery is null or valid for its use:       *)
(* search is a string without any of the characters the sanitization is    *)
(* to strip, sort is a sortable key and each category is a standard        *)
(* category.  The methods of FoodCollection read the properties of a query *)
(* and assign none, so that the properties after any sequence of calls     *)
(* are those the constructor has set; the property is stated on the        *)
(* FoodQuery the constructor returns.                                      *)
(***************************************************************************)
QueryValid(q) ==
    /\ \/ q.props[kSearch] = Null
       \/ /\ IsString(q.props[kSearch])
          /\ \A i \in DOMAIN q.props[kSearch] :
                q.props[kSearch][i] \notin
                    UnicodePunctuation \cup AsciiPunctuation \cup AsciiDigits
    /\ q.props[kSort] \in {Null} \cup Range(sortableKeys)
    /\ q.props[catPerson1] \in {Null} \cup Range(stdCats)
    /\ q.props[catPerson2] \in {Null} \cup Range(stdCats)

C17_QueryInvariant ==
    (last.op = "FoodQuery" /\ last.out.err = "none") =>
        /\ DOMAIN last.out.ret.props = {kSearch, kSort, catPerson1, catPerson2}
        /\ QueryValid(last.out.ret)

(***************************************************************************)
(* C18.  new Food(raw) succeeds exactly when, an absent imgFile taken as   *)
(* '' and an absent foodNative as foodEn, the seven properties are strings *)
(* and both categories are standard ones.  The Food then holds exactly     *)
(* those seven values; otherwise the constructor throws and there is no    *)
(* Food.                                                                   *)
(***************************************************************************)
\* The value the claim gives property k of a Food made from raw.
ExpectedProperty(raw, k) ==
    IF k = kImgFile /\ k \notin {j \in DOMAIN raw : raw[j] # Undefined} THEN <<>>
    ELSE IF k = kFoodNative /\ k \notin {j \in DOMAIN raw : raw[j] # Undefined}
        THEN Get(raw, kFoodEn)
    ELSE Get(raw, k)

ExpectedValid(raw) ==
    /\ \A k \in {kAlias, kImgFile, kFoodEn, kFoodNative, kServing,
                  catPerson1, catPerson2} : IsString(ExpectedProperty(raw, k))
    /\ \A k \in {catPerson1, catPerson2} :
            ExpectedProperty(raw, k) \in {Superfood, Enjoy, Minimize, Avoid}

C18_FoodConstruction ==
    (last.op = "Food" /\ last.args[1] \notin {Null, Undefined}) =>
        LET raw == last.args[1]
        IN  /\ last.out.err = "none" <=> ExpectedValid(raw)
            /\ last.out.err = "none" =>
                /\ last.out.ret.class = "Food"
                /\ DOMAIN last.out.ret.props =
                        {kAlias, kImgFile, kFoodEn, kFoodNative, kServing,
                         catPerson1, catPerson2}
                /\ \A k \in DOMAIN last.out.ret.props :
                        last.out.ret.props[k] = ExpectedProperty(raw, k)
            /\ last.out.err # "none" => last.out.ret = 0

C18_Witness ==
    /\ last.op = "Food"
    /\ last.out.err = "none"
    /\ Get(last.args[1], kImgFile) = Undefined
    /\ Get(last.args[1], kFoodNative) = Undefined
    /\ last.out.ret.props[kImgFile] = <<>>
    /\ last.out.ret.props[kFoodNative] = <<"B","a">>

(***************************************************************************)
(* C19.  new Food(raw) with seven string properties of which a category is *)
(* not a standard one throws the Error of Food.validate whose message      *)
(* names the value, and no error of another class.                         *)
(***************************************************************************)
C19_BadCategoryError ==
    (/\ last.op = "Food"
     /\ last.args[1] \notin {Null, Undefined}
     /\ \A k \in FoodKeys : IsString(ExpectedProperty(last.args[1], k))
     /\ \E k \in {catPerson1, catPerson2} :
            ExpectedProperty(last.args[1], k) \notin Range(stdCats))
        => last.out.err = "Error"

(***************************************************************************)
(* C20.  new FoodCollection() throws, and makes no collection, whenever    *)
(* an element (of the array handed as first argument, or of the arguments) *)
(* is neither an instance of Food nor an object, is an object that makes   *)
(* no valid Food, or is an instance of Food that is no longer valid.       *)
(***************************************************************************)
BadElement(e) ==
    \/ e.class \notin {"Food", "Object"}
    \/ e.class = "Object" /\ ~ExpectedValid(e.props)
    \/ e.class = "Food" /\
            ~(/\ \A k \in DOMAIN e.props : IsString(e.props[k])
              /\ e.props[catPerson1] \in Range(stdCats)
              /\ e.props[catPerson2] \in Range(stdCats))

C20_BadElementsRejected ==
    last.op = "FoodCollection" =>
        LET items == last.args
            elements == IF Len(items) > 0 /\ items[1].class = "Array"
                            THEN items[1].props ELSE items
        IN  (\E i \in DOMAIN elements : BadElement(elements[i])) =>
                last.out.err # "none" /\ last.out.ret = 0

(***************************************************************************)
(* C21.  new FoodCollection(a) with an array a, and new FoodCollection(x1, *)
(* ..., xn), with valid inputs (objects that make a Food and instances of  *)
(* Food, mixed) give a collection that holds one Food for each input, in   *)
(* the order of the inputs.  When the first argument is an array, the      *)
(* arguments after it are ignored, whatever they are.                      *)
(***************************************************************************)
\* The Food the claim expects for a valid input.
ExpectedFood(e) ==
    IF e.class = "Food" THEN e.props
    ELSE [k \in {kAlias, kImgFile, kFoodEn, kFoodNative, kServing,
                 catPerson1, catPerson2} |-> ExpectedProperty(e.props, k)]

\* The inputs of a construction: the elements of the array handed as first
\* argument, or the arguments.
Inputs == IF Len(last.args) > 0 /\ last.args[1].class = "Array"
              THEN last.args[1].props ELSE last.args

C21_ConstructionShape ==
    (last.op = "FoodCollection"
        /\ \A i \in DOMAIN Inputs : ~BadElement(Inputs[i])) =>
        /\ last.out.err = "none"
        /\ Len(last.out.ret) = Len(Inputs)
        /\ \A i \in DOMAIN Inputs : last.out.ret[i] = ExpectedFood(Inputs[i])

C21_Witness ==
    /\ last.op = "FoodCollection"
    /\ Len(last.args) = 2
    /\ last.args[1].class = "Array"
    /\ last.args[1].props = <<Value("Food", FoodProperties(OtherRaw)),
                               Value("Object", GoodRaw)>>
    /\ last.args[2] = Value("Object", GoodRaw)
    /\ last.out.err = "none"
    /\ last.out.ret = <<FoodProperties(OtherRaw), FoodProperties(GoodRaw)>>

(***************************************************************************)
(* C22.  Every position of every FoodCollection holds a valid Food: of the *)
(* collection a construction that succeeds has made, and, after any        *)
(* sequence of calls of filterByCat, filterByKeyword, sortByProperty and   *)
(* digest, of the constructed collection and of every collection a call    *)
(* has made.                                                               *)
(***************************************************************************)
\* What a position of a collection holds is a Food with seven strings and
\* two standard categories (an empty slot has no such properties).
ValidFoodRecord(e) ==
    /\ Cardinality(DOMAIN e) = Cardinality(FoodKeys)
    /\ DOMAIN e = FoodKeys
    /\ \A k \in FoodKeys : IsString(e[k])
    /\ e[catPerson1] \in Range(stdCats)
    /\ e[catPerson2] \in Range(stdCats)

HoldsValidFoods(coll) == \A i \in DOMAIN coll : ValidFoodRecord(coll[i])

C22_CollectionInvariant ==
    /\ \A c \in DOMAIN heap : HoldsValidFoods(heap[c])
    /\ \A c \in DOMAIN last.out.heap : HoldsValidFoods(last.out.heap[c])
    /\ (last.op = "FoodCollection" /\ last.out.err = "none") =>
            HoldsValidFoods(last.out.ret)

(***************************************************************************)
(* C23.  Food.validate checks the presence of the two categories first,    *)
(* then that every property is a string, then that the categories are      *)
(* standard ones: an object without a category throws the Error of the     *)
(* first check even when another property is no string; with both          *)
(* categories present, a property that is no string (a category that is    *)
(* null or a number included) throws the TypeError; the error for a        *)
(* category that is not standard is left for the objects that pass both.   *)
(***************************************************************************)
C23_ValidationOrder ==
    (last.op = "Food" /\ last.args[1] \notin {Null, Undefined}) =>
        LET raw == last.args[1]
            missing == \E k \in {catPerson1, catPerson2} : Get(raw, k) = Undefined
            nonString == \E k \in FoodKeys : ~IsString(ExpectedProperty(raw, k))
            nonStandard == \E k \in {catPerson1, catPerson2} :
                                Get(raw, k) \notin {Superfood, Enjoy, Minimize, Avoid}
        IN  /\ missing => last.out.err = "Error"
            /\ (~missing /\ nonString) => last.out.err = "TypeError"
            /\ (~missing /\ ~nonString) =>
                    /\ last.out.err \notin {"Error", "TypeError"}
                    /\ last.out.err # "none" <=> nonStandard

C23_Witness ==
    /\ last.op = "Food"
    /\ last.args[1] \notin {Null, Undefined}
    /\ Get(last.args[1], catPerson2) = Undefined
    /\ Get(last.args[1], catPerson1) = Five
    /\ Get(last.args[1], kFoodEn) = False
    /\ last.out.err = "Error"

(***************************************************************************)
(* C24.  What validateParamSearch returns for a string holds no character  *)
(* with a special meaning in the pattern of a regular expression (each is  *)
(* in the class of characters the sanitization removes), so that           *)
(* filterByKeyword given the search value of a FoodQuery never throws and  *)
(* returns the records whose foodEn or foodNative contains that value as   *)
(* it is written, ignoring letter case.                                    *)
(***************************************************************************)
\* The syntax characters of a pattern.
RegExpSpecial ==
    {"\\", "^", "$", ".", "|", "?", "*", "+", "(", ")", "[", "]", "{", "}"}

C24_SanitizedKeywordIsLiteral ==
    (last.op = "filterByKeyword" /\ last.args[1] \in Keywords \ {Undefined, Null}) =>
        LET k == last.args[1]
            Contains(r) == NameContains(r, k)
        IN  /\ RegExpSpecial \subseteq FilterChars
            /\ \A i \in DOMAIN k : k[i] \notin RegExpSpecial
            /\ last.out.err = "none"
            /\ Returned = SelectSeq(Before, Contains)

C24_Witness ==
    /\ last.op = "filterByKeyword"
    /\ last.args[1] = validateParamSearch(<<"B",".","1">>)
    /\ last.args[1] = <<"B">>
    /\ last.out.err = "none"
    /\ Len(Returned) >= 1
    /\ Len(Returned) < Len(Before)

(***************************************************************************)
(* C25.  No call of filterByCat, filterByKeyword, sortByProperty or digest *)
(* adds a record to a collection or removes one from it: every collection  *)
(* holds after the call the records it held before, each as many times, so *)
(* that the constructed collection holds, after any sequence of calls on   *)
(* it and on the collections returned, the records of its construction in  *)
(* some order; and every collection a call makes holds only records of the *)
(* constructed collection, none more often than that collection.           *)
(***************************************************************************)
\* Every record of a is in b, at least as many times.
OnlyRecordsOf(a, b) == \A x \in Range(a) : Count(a, x) <= Count(b, x)

C25_RecordsPreserved ==
    /\ \A c \in DOMAIN last.pre :
            \/ last.out.heap[c] = last.pre[c]
            \/ IsPermutation(last.out.heap[c], last.pre[c])
    /\ \A c \in DOMAIN last.out.heap \ {1} :
            OnlyRecordsOf(last.out.heap[c], last.out.heap[1])
    /\ \A c \in DOMAIN heap \ {1} : OnlyRecordsOf(heap[c], heap[1])

C25_Witness ==
    /\ last.op = "sortByProperty"
    /\ last.recv = 1
    /\ Len(heap) = 2
    /\ Len(heap[2]) >= 1
    /\ Len(heap[2]) < Len(heap[1])
    /\ After # Before
    /\ IsPermutation(After, Before)

(***************************************************************************)
(* C26.  For a FoodQuery q, C.digest(q).digest(q) holds the records of     *)
(* C.digest(q) in the same order, and a second C.digest(q) on the same C   *)
(* returns the records of the first call in the same order.  Both second   *)
(* calls are made in the heap the first call has left.                     *)
(***************************************************************************)
C26_DigestIdempotent ==
    (last.op = "digest" /\ IsFoodQuery(last.args[1])) =>
        LET q == last.args[1]
            onResult == digest(last.out.heap, last.out.ret, q)
            again == IF last.out.ret = last.recv THEN onResult
                     ELSE digest(last.out.heap, last.recv, q)
        IN  /\ last.out.err = "none"
            /\ onResult.err = "none"
            /\ onResult.heap[onResult.ret] = Returned
            /\ again.err = "none"
            /\ again.heap[again.ret] = Returned

C26_Witness ==
    /\ last.op = "digest"
    /\ IsFoodQuery(last.args[1])
    /\ last.args[1].props[kSort] = kFoodEn
    /\ last.args[1].props[catPerson2] = Enjoy
    /\ ReturnedNew
    /\ \E i, j \in DOMAIN Returned :
            /\ i < j
            /\ Returned[i] # Returned[j]
            /\ Returned[i][kFoodEn] = Returned[j][kFoodEn]
    /\ digest(last.out.heap, last.out.ret, last.args[1]).ret > Len(last.out.heap)

(***************************************************************************)
(* C27.  A FoodQuery made from a search string that is not empty and holds *)
(* only characters the sanitization strips (such as '123') has the empty   *)
(* string for search, not null.  filterByKeyword given that value returns  *)
(* a new collection with every record of the receiver in order; digest     *)
(* given that query returns a new collection that holds every record that  *)
(* passes the category filters, the keyword leaving all of them in; the    *)
(* receiver is left as it was.                                             *)
(***************************************************************************)
OnlyStripped(str) ==
    /\ IsString(str)
    /\ str # <<>>
    /\ \A i \in DOMAIN str : str[i] \in FilterChars

\* The queries and the keywords of the exploration made from such strings.
StrippedQueries ==
    {FoodQueryNew(raw) : raw \in {r \in RawQueries : OnlyStripped(r[kSearch])}}

StrippedKeywords ==
    {validateParamSearch(r) : r \in {x \in RawSearches : OnlyStripped(x)}}

C28_TiesKeepOrder ==
    (last.op = "sortByProperty" /\ ~IsNull(last.args[1])
            /\ last.args[2] \in {asc, dsc, Undefined}) =>
        LET f == last.args[1]
        IN  /\ last.out.err = "none"
            /\ \A i \in DOMAIN Before :
                    LET Tied(r) == CompareTable[Get(r, f)][Get(Before[i], f)] = 0
                    IN  SelectSeq(After, Tied) =
                            IF last.args[2] = dsc
                                THEN ArrayReverse(SelectSeq(Before, Tied))
                            ELSE SelectSeq(Before, Tied)

C28_Witness ==
    /\ last.op = "sortByProperty"
    /\ last.args = <<catPerson1, asc>>
    /\ After # Before
    /\ \E i, j \in DOMAIN Before :
            /\ i < j
            /\ Before[i] # Before[j]
            /\ Before[i][catPerson1] = Before[j][catPerson1]
            /\ \E m, n \in DOMAIN After :
                    m < n /\ After[m] = Before[i] /\ After[n] = Before[j]
====
